---- MODULE Spec2Model ----
(***************************************************************************)
(* ThreadMed: the Zotero -> ThreadMed synchronisation pipeline.            *)
(*                                                                         *)
(* The model follows src/src/main/services/sync-engine.ts (syncLibrary,    *)
(* downloadPdfForPaper, extractTextForNewPapers, disconnectZotero),        *)
(* zotero-client.ts (request, fetchItems, fetchChildItems, downloadFile),  *)
(* credential-store.ts (retrieveApiKey, sync_meta helpers, the PDF namer), *)
(* database/connection.ts (getDb, getPdfDir, closeDatabase) and the papers *)
(* repository (createPaper, upsertPaper, updatePaperFullText).             *)
(*                                                                         *)
(* JavaScript runs every handler to completion between two awaits.  One    *)
(* action of the model is one such synchronous segment, or one iteration   *)
(* of a synchronous loop; while a call stands at a position that is not an *)
(* await (Transient), nothing else may run, so the iterations of a loop    *)
(* are never interleaved with another handler.                             *)
(***************************************************************************)
EXTENDS Integers, Sequences, FiniteSets, TLC

\* ---------------------------------------------------------------- bounds
MaxKeys    == 3      \* remote items are keyed 1..MaxKeys
MaxVersion == 2      \* the remote library version is capped here
MaxCycles  == 2      \* sync cycles that may start (also the logical clock)
MaxCreated == 1      \* papers that may be made by hand
PAGE_SIZE  == 1      \* items per page (zotero-client.ts: 100), scaled down

\* ------------------------------------------------------- program constants
RETRIES      == 3    \* request(): attempts per logical request
NUM_SUFFIXES == 25   \* generatePdfFilename: 'bcdefghijklmnopqrstuvwxyz'

Keys    == 1..MaxKeys
Callers == {1, 2}    \* two renderer invocations of 'zotero:sync' may overlap

VARIABLES
    dbOpen,         \* connection.ts: db !== null (a project is open)
    syncMeta,       \* the sync_meta table of the project database
    papers,         \* the papers table: a set of rows
    nextId,         \* uuidv4(): the next fresh local identifier
    files,          \* the names of the files in the project's pdfs directory
    remote,         \* remote library: key -> version of the item (0: absent)
    remoteVersion,  \* remote library version (Last-Modified-Version)
    isSyncing,      \* sync-engine.ts: the module-level in-flight guard
    call,           \* per caller: the position and locals of its syncLibrary
    cycles,         \* cycles started so far; stands for the wall clock
    quietCur,       \* history: no remote change since the running cycle
                    \* began or last received a response
    hist,           \* history: what the last finished cycle did
    created,        \* papers made by hand so far
    conn,           \* the position and locals of a connectZotero call
    pure,           \* a call of a pure function: its argument and result
    proj            \* the project handles, the directories on disk and a
                    \* cycle's writes by project

vars == <<dbOpen, syncMeta, papers, nextId, files, remote, remoteVersion,
          isSyncing, call, cycles, quietCur, hist, created, conn, pure,
          proj>>

\* ------------------------------------------------------------ remote data
\* The payload of a remote item, a function of the item and its version.
\* The items but the last are articles by the same single author in the same
\* year (their attachment names collide); item 1 loses its authors when it
\* is modified at a version above 1; the last item is an item-level
\* annotation.
ItemType(k) == IF k = MaxKeys THEN "annotation" ELSE "journalArticle"

\* zotero-client.ts extractAuthors(item.data.creators) of the fetched item
ItemAuthors(it) ==
    IF it.key = MaxKeys \/ (it.key = 1 /\ it.version > 1)
    THEN <<>> ELSE <<"Smith">>

ItemYear(k) == IF k = MaxKeys THEN 0 ELSE 2024

\* zotero-client.ts fetchItems: the server's answer to one page request.
\* "since" is sent only when sinceVersion > 0; the server sorts by
\* modification, newest first (every remote change gets a version of its own).
Matching(since) ==
    {k \in Keys : remote[k] > 0 /\ (since > 0 => remote[k] > since)}

RECURSIVE SortedDesc(_)
SortedDesc(S) ==
    IF S = {} THEN <<>>
    ELSE LET k == CHOOSE x \in S : \A y \in S : remote[y] <= remote[x]
         IN  <<[key |-> k, version |-> remote[k]]>> \o SortedDesc(S \ {k})

Min(a, b) == IF a < b THEN a ELSE b

ServerPage(since, start) ==
    LET all == SortedDesc(Matching(since))
    IN  SubSeq(all, start + 1, Min(start + PAGE_SIZE, Len(all)))

TotalResults(since) == Cardinality(Matching(since))

\* -------------------------------------------------------------- sync_meta
NoRow == -1

\* Variant: the stored cursor is ignored, every cycle is a full fetch.
ParseCursorZero(v) == 0

\* credential-store.ts getSyncMeta('library_version') || '0', parseInt
ParseCursor(v) == IF v = NoRow THEN 0 ELSE v

\* credential-store.ts retrieveApiKey: the key it returns (TRUE: a key)
RetrievedKey(m) ==
    IF m.enc = "none" THEN m.legacy ELSE m.enc = "ok"

\* credential-store.ts retrieveApiKey: its writes (the legacy migration:
\* storeApiKey(legacy), deleteSyncMeta('zotero_api_key'))
MigratedMeta(m) ==
    IF m.enc = "none" /\ m.legacy
    THEN [m EXCEPT !.enc = "ok", !.legacy = FALSE]
    ELSE m

\* ------------------------------------------------------------ local store
NoPdf == [author |-> <<>>, year |-> 0, suffix |-> -1]

\* pdf-namer generatePdfFilename: author part, year part, collision suffix
\* (0: none, 1..25: b..z, beyond: the timestamp fallback)
AuthorPart(authors) ==
    IF Len(authors) = 0 THEN <<"Untitled">>
    ELSE IF Len(authors) = 1 THEN <<authors[1]>>
    ELSE IF Len(authors) = 2 THEN <<authors[1], authors[2]>>
    ELSE <<authors[1], "EtAl">>

\* Variant: no collision handling, the base name is always returned.
PdfFilenameNoSuffix(authors, year, dir) ==
    [author |-> AuthorPart(authors), year |-> year, suffix |-> 0]

generatePdfFilename(authors, year, dir) ==
    LET name(n) == [author |-> AuthorPart(authors), year |-> year, suffix |-> n]
        free    == {n \in 0..NUM_SUFFIXES : name(n) \notin dir}
    IN  IF free # {}
        THEN name(CHOOSE n \in free : \A m \in free : n <= m)
        ELSE name(NUM_SUFFIXES + 1 + cycles)

RowsByKey(k) == {p \in papers : p.zkey = k}

RowsById(id) == {p \in papers : p.id = id}

\* ---------------------------------------------------------------- results
EmptyResult ==
    [imported |-> 0, updated |-> 0, pdfsDownloaded |-> 0,
     errors |-> <<>>, libraryVersion |-> 0]

Err(kind, key) == [kind |-> kind, key |-> key]

IdleCall ==
    [pc |-> "idle", out |-> "none", guard |-> FALSE,
     since |-> 0, llv |-> 0, start |-> 0, attempt |-> 0, req |-> "none",
     items |-> <<>>, recs |-> <<>>, i |-> 0, paperId |-> 0, fname |-> NoPdf,
     exq |-> <<>>, j |-> 0, res |-> EmptyResult,
     dbh |-> FALSE, nrecs |-> 0,
     upFails |-> 0, failIdx |-> 0, failKey |-> 0, ups |-> 0, dlFails |-> 0,
     fetchFailed |-> FALSE, fatal |-> FALSE, wrote |-> 0, thrown |-> "none",
     userId |-> "none"]

\* No pure function is being looked at.
NoCall == [fn |-> "none"]

\* No project open, none on disk, no cycle (see the projects section).
NoProject ==
    [active |-> 0, dir |-> 0, db |-> 0, exists |-> {}, pc |-> "idle",
     home |-> 0, pdfDir |-> 0, dbh |-> 0, left |-> 0, wrote |-> {}]

\* sync-engine.ts connectZotero: its position, the attempts of its one
\* request, whether validation returned valid, and what the call gave
IdleConn ==
    [pc |-> "idle", attempt |-> 0, validated |-> FALSE, out |-> "none",
     valid |-> FALSE, error |-> "none", userId |-> "none"]

\* Positions that are awaits (another handler may run) and positions inside a
\* synchronous segment (nothing else runs).  A settled call ("done") hands
\* its result to the IPC layer before anything else runs.
Transient == {"loop", "exloop", "finish", "done"}

NoTask ==
    /\ \A c \in Callers : call[c].pc \notin Transient
    /\ conn.pc # "done"

Running(c) == call[c].pc \notin {"idle", "done"}

InitMeta ==
    {m \in [enc : {"none", "ok", "bad"}, legacy : BOOLEAN, user : BOOLEAN,
            libver : {NoRow}, lastSync : {0},
            account : {"none", "101"}, cursorOf : {"none"}] :
        /\ m.enc # "none" => ~m.legacy
        /\ m.user <=> m.account # "none"}

Init ==
    /\ dbOpen = FALSE
    /\ syncMeta \in InitMeta
    /\ papers = {}
    /\ nextId = 1
    /\ files = {}
    /\ remote = [k \in Keys |-> 0]
    /\ remoteVersion = 0
    /\ isSyncing = FALSE
    /\ call = [c \in Callers |-> IdleCall]
    /\ cycles = 0
    /\ quietCur = TRUE
    /\ hist = [ran |-> FALSE, wrote |-> FALSE, quiet |-> FALSE,
               seen |-> [k \in Keys |-> 0]]
    /\ created = 0
    /\ conn = IdleConn
    /\ pure = NoCall
    /\ proj = NoProject

\* ------------------------------------------------------------ syncLibrary
\* Variant: the guard is never tested.
GuardNeverTested == FALSE

\* sync-engine.ts line 127: the guard test
AlreadySyncing == isSyncing

\* Variant: the account identifier is not required.
ConnectedNoUser(m) == RetrievedKey(m)

\* sync-engine.ts line 134: apiKey && userId
Connected(m) == RetrievedKey(m) /\ m.user

\* Variant: no finally block, the guard stays as it is.
GuardKept == isSyncing

\* sync-engine.ts lines 226-228: the finally block's isSyncing = false
AfterFinally == FALSE

\* sync-engine.ts lines 221-228: the outer catch and the finally
\* The locals of a finished call are dead: what stays is what it returned
\* and the record of what it did.
Settled(cs) ==
    [IdleCall EXCEPT !.pc = "done", !.out = "result", !.guard = cs.guard,
        !.since = cs.since, !.llv = cs.llv, !.res = cs.res,
        !.nrecs = cs.nrecs, !.i = cs.i,
        !.upFails = cs.upFails, !.failIdx = cs.failIdx,
        !.failKey = cs.failKey, !.ups = cs.ups,
        !.dlFails = cs.dlFails,
        !.fetchFailed = cs.fetchFailed, !.fatal = cs.fatal,
        !.wrote = cs.wrote, !.thrown = cs.thrown]

\* The error a call raised last, by its message: "api" (Zotero API error
\* <status>: <body>), "maxretries", "download" (Zotero file download failed:
\* <status>; "download429" when the status is 429), "nodb" (no database or project open), "closed" (the connection
\* was closed), "store" (a statement failed).  History only.
Raise(cs, msg) == [cs EXCEPT !.thrown = msg]

\* Variant: the version header is read before the status is tested.
ApiErrorVersionRead(cs) == Raise([cs EXCEPT !.llv = remoteVersion], "api")

\* zotero-client.ts lines 83-86: a non-OK response without a rate-limit
\* signal throws 'Zotero API error <status>: <body>' out of the retry loop,
\* before the Last-Modified-Version header is read (lines 88-92).
ApiError(cs) == Raise(cs, "api")

\* Variant: the outer catch records no error.
FatalNoError(cs) == Settled([cs EXCEPT !.fatal = TRUE])

\* Variant: the outer catch reports the cursor read at the start.
FatalOldVersion(cs) ==
    Settled([cs EXCEPT !.fatal = TRUE, !.res.libraryVersion = cs.since,
                !.res.errors = Append(cs.res.errors, Err("fatal", 0))])

Fatal(cs) ==
    Settled([cs EXCEPT !.fatal = TRUE,
                !.res.errors = Append(cs.res.errors, Err("fatal", 0))])

\* sync-engine.ts lines 126-149: from the call to the first page request
SyncLibrary(c) ==
    /\ NoTask
    /\ call[c].pc = "idle"
    /\ IF AlreadySyncing
       THEN /\ call' = [call EXCEPT ![c] =
                    [IdleCall EXCEPT !.pc = "done", !.out = "result",
                        !.res.errors = <<Err("already", 0)>>]]
            /\ UNCHANGED <<syncMeta, isSyncing, cycles, quietCur>>
       ELSE IF ~dbOpen
       THEN \* retrieveApiKey -> getSyncMeta -> getDb throws, outside the try
            /\ call' = [call EXCEPT ![c] =
                    [IdleCall EXCEPT !.pc = "done", !.out = "raised"]]
            /\ UNCHANGED <<syncMeta, isSyncing, cycles, quietCur>>
       ELSE IF ~Connected(syncMeta)
       THEN /\ call' = [call EXCEPT ![c] =
                    [IdleCall EXCEPT !.pc = "done", !.out = "result",
                        !.res.errors = <<Err("notconnected", 0)>>]]
            /\ syncMeta' = MigratedMeta(syncMeta)
            /\ UNCHANGED <<isSyncing, cycles, quietCur>>
       ELSE /\ cycles < MaxCycles
            /\ isSyncing' = TRUE
            /\ syncMeta' = MigratedMeta(syncMeta)
            /\ cycles' = cycles + 1
            /\ quietCur' = TRUE
            /\ call' = [call EXCEPT ![c] =
                    [IdleCall EXCEPT !.pc = "fetchItems", !.guard = TRUE,
                        !.userId = syncMeta.account,
                        !.since = ParseCursor(syncMeta.libver)]]
    /\ UNCHANGED <<dbOpen, papers, nextId, files, remote, remoteVersion, hist,
                   created, conn,
                   pure,
                   proj>>

\* zotero-client.ts lines 74-81 and 98: a rate-limited response, the sleep
RateLimited(cs, kind) == [cs EXCEPT !.pc = "sleep", !.req = kind]

\* sync-engine.ts lines 153-156: the filter to actual papers
IsPaper(it) ==
    ItemType(it.key) \notin {"attachment", "note", "annotation"}

\* History: the highest version of each item a record fetch has returned.
Seen(seen, page) ==
    [k \in Keys |->
        IF \E n \in 1..Len(page) : page[n].key = k /\ page[n].version > seen[k]
        THEN (CHOOSE it \in {page[n] : n \in 1..Len(page)} : it.key = k).version
        ELSE seen[k]]

\* Variant: the fetch goes on when the next offset equals the total.
LastPageBeyondTotal(start, total, page) == start > total \/ Len(page) = 0

\* zotero-client.ts lines 152-154: start (already advanced by PAGE_SIZE)
\* >= totalResults || items.length === 0
LastPage(start, total, page) == start >= total \/ Len(page) = 0

\* zotero-client.ts lines 126-156 (one page) and sync-engine.ts 149-161
ItemsResponse(c, o) ==
    /\ NoTask
    /\ call[c].pc = "fetchItems"
    /\ LET cs == call[c] IN
       IF o = "ratelimit"
       THEN /\ call' = [call EXCEPT ![c] = RateLimited(cs, "fetchItems")]
            /\ UNCHANGED <<isSyncing, quietCur>>
       ELSE IF o = "error"
       THEN /\ call' = [call EXCEPT ![c] =
                     Fatal(ApiError([cs EXCEPT !.fetchFailed = TRUE]))]
            /\ isSyncing' = AfterFinally
            /\ UNCHANGED quietCur
       ELSE LET page  == ServerPage(cs.since, cs.start)
                start == cs.start + PAGE_SIZE
                got   == [cs EXCEPT !.llv = remoteVersion, !.start = start,
                                    !.attempt = 0,
                                    !.items = cs.items \o page]
            IN  /\ quietCur' = TRUE
                /\ IF LastPage(start, TotalResults(cs.since), page)
                   THEN IF ~dbOpen
                        THEN \* getPdfDir throws 'No project is open.'
                             /\ call' = [call EXCEPT ![c] =
                                            Fatal(Raise(got, "nodb"))]
                             /\ isSyncing' = AfterFinally
                        ELSE /\ call' = [call EXCEPT ![c] =
                                    [got EXCEPT !.pc = "loop", !.i = 1,
                                        !.start = 0, !.items = <<>>,
                                        !.recs = SelectSeq(got.items, IsPaper),
                                        !.nrecs =
                                          Len(SelectSeq(got.items, IsPaper))]]
                             /\ UNCHANGED isSyncing
                   ELSE /\ call' = [call EXCEPT ![c] = got]
                        /\ UNCHANGED isSyncing
    /\ hist' = IF o = "ok"
               THEN [hist EXCEPT !.seen = Seen(@,
                        ServerPage(call[c].since, call[c].start))]
               ELSE hist
    /\ UNCHANGED <<dbOpen, syncMeta, papers, nextId, files, remote,
                   remoteVersion, cycles,
                   created, conn,
                   pure,
                   proj>>

\* Variant: the loop steps over one record.
NextRecordSkips(cs) ==
    [cs EXCEPT !.pc = "loop", !.i = cs.i + 2, !.attempt = 0, !.req = "none",
               !.paperId = 0, !.fname = NoPdf, !.dbh = FALSE]

\* sync-engine.ts lines 202 and 208: the next iteration of the record loop
NextRecord(cs) ==
    [cs EXCEPT !.pc = "loop", !.i = cs.i + 1, !.attempt = 0, !.req = "none",
               !.paperId = 0, !.fname = NoPdf, !.dbh = FALSE]

\* Variant: a failed download is reported like a failed import.
DownloadFailedReported(cs) ==
    NextRecord([cs EXCEPT !.dlFails = cs.dlFails + 1,
        !.res.errors = Append(cs.res.errors,
                              Err("import", cs.recs[cs.i].key))])

\* sync-engine.ts lines 280-283: downloadPdfForPaper's catch swallows the
\* error (console.error only); the record loop goes on
DownloadFailed(cs) ==
    NextRecord([cs EXCEPT !.dlFails = cs.dlFails + 1])

\* Variant: one attempt more than the ceiling.
AttemptLeftOffByOne(attempt) == attempt <= RETRIES

\* zotero-client.ts line 66: the loop condition attempt < retries
AttemptLeft(attempt) == attempt < RETRIES

\* zotero-client.ts lines 66, 79-80, 98: the sleep ends; retry or give up
Wake(c) ==
    /\ NoTask
    /\ call[c].pc = "sleep"
    /\ LET cs == [call[c] EXCEPT !.attempt = call[c].attempt + 1] IN
       IF AttemptLeft(cs.attempt)
       THEN /\ call' = [call EXCEPT ![c] =
                             [cs EXCEPT !.pc = cs.req, !.req = "none"]]
            /\ UNCHANGED isSyncing
       ELSE IF cs.req = "fetchItems"
       THEN /\ call' = [call EXCEPT ![c] =
              Fatal(Raise([cs EXCEPT !.fetchFailed = TRUE], "maxretries"))]
            /\ isSyncing' = AfterFinally
       ELSE /\ call' = [call EXCEPT ![c] =
                             DownloadFailed(Raise(cs, "maxretries"))]
            /\ UNCHANGED isSyncing
    /\ UNCHANGED <<dbOpen, syncMeta, papers, nextId, files, remote,
                   remoteVersion, cycles, quietCur, hist,
                   created, conn,
                   pure,
                   proj>>

\* ------------------------------------------------------- the record loop
\* papers.ts upsertPaper (lines 156-195) and createPaper (lines 41-53): the
\* row written for a remote item.  The UPDATE keeps pdf_filename (COALESCE of
\* NULL) and full_text; the INSERT leaves zotero_version at its default 0.
NewRow(id, zkey, authors) ==
    [id |-> id, zkey |-> zkey, zver |-> 0, pdf |-> NoPdf, text |-> FALSE,
     authors |-> authors]

\* Variant: the upsert always inserts.
UpsertAlwaysInserts(it) ==
    papers \cup {NewRow(nextId, it.key, ItemAuthors(it))}

\* The author links are replaced only when the derived list is not empty
\* (upsertPaper line 182: input.authors && input.authors.length > 0).
UpsertRows(it) ==
    IF RowsByKey(it.key) # {}
    THEN {IF p.zkey = it.key
          THEN [p EXCEPT !.zver = it.version,
                         !.authors = IF Len(ItemAuthors(it)) > 0
                                     THEN ItemAuthors(it) ELSE @]
          ELSE p : p \in papers}
    ELSE papers \cup {NewRow(nextId, it.key, ItemAuthors(it))}

\* papers.ts upsertPaper / createPaper when the authors transaction throws:
\* the row is written (and, on the update path, the old links are already
\* deleted, line 184), the inserts of the transaction are rolled back.
UpsertRowsAuthorsFailed(it) ==
    IF RowsByKey(it.key) # {}
    THEN {IF p.zkey = it.key
          THEN [p EXCEPT !.zver = it.version, !.authors = <<>>]
          ELSE p : p \in papers}
    ELSE papers \cup {NewRow(nextId, it.key, <<>>)}

UpsertId(it) ==
    IF RowsByKey(it.key) # {}
    THEN (CHOOSE p \in RowsByKey(it.key) : TRUE).id
    ELSE nextId

\* Variant: the per-record catch leaves the loop.
ImportFailedBreak(cs, it) ==
    [cs EXCEPT !.i = Len(cs.recs) + 1, !.upFails = cs.upFails + 1,
               !.failIdx = cs.i, !.failKey = it.key,
               !.res.errors = Append(cs.res.errors, Err("import", it.key))]

\* sync-engine.ts lines 203-207: the per-record catch
ImportFailed(cs, it) ==
    [cs EXCEPT !.i = cs.i + 1, !.upFails = cs.upFails + 1, !.failIdx = cs.i,
               !.failKey = it.key,
               !.res.errors = Append(cs.res.errors, Err("import", it.key))]

\* sync-engine.ts lines 161-201 and 244-246: one record, from the existence
\* check to the children request.  o is what the store does with the
\* upsert: "ok"; "throwBefore", a statement that fails before any write;
\* "throwAfterRow", the paper row is written and the author links fail (the
\* authors transaction of createPaper / insertAuthorsForPaper throws).
ProcessRecord(c, o) ==
    /\ call[c].pc = "loop"
    /\ call[c].i <= Len(call[c].recs)
    /\ o = "throwAfterRow" => Len(ItemAuthors(call[c].recs[call[c].i])) > 0
    /\ LET cs == call[c]
           it == cs.recs[cs.i]
       IN  IF ~dbOpen \/ o = "throwBefore"
           THEN /\ call' = [call EXCEPT ![c] = ImportFailed(
                        Raise(cs, IF dbOpen THEN "store" ELSE "nodb"), it)]
                /\ UNCHANGED <<papers, nextId>>
           ELSE /\ papers' = IF o = "throwAfterRow"
                             THEN UpsertRowsAuthorsFailed(it)
                             ELSE UpsertRows(it)
                /\ nextId' = IF RowsByKey(it.key) # {} THEN nextId
                                                       ELSE nextId + 1
                /\ IF o = "throwAfterRow"
                   THEN call' = [call EXCEPT ![c] =
                            ImportFailed(Raise([cs EXCEPT !.ups = cs.ups + 1],
                                               "store"), it)]
                   ELSE call' = [call EXCEPT ![c] =
                            [cs EXCEPT
                                !.pc = "children", !.attempt = 0,
                                !.thrown = "none",
                                !.ups = cs.ups + 1,
                                !.paperId = UpsertId(it),
                                !.res.updated = IF RowsByKey(it.key) # {}
                                                THEN @ + 1 ELSE @,
                                !.res.imported = IF RowsByKey(it.key) # {}
                                                 THEN @ ELSE @ + 1]]
    /\ UNCHANGED <<dbOpen, syncMeta, files, remote, remoteVersion, isSyncing,
                   cycles, quietCur, hist,
                   created, conn,
                   pure,
                   proj>>

\* sync-engine.ts lines 246-271: the children response, up to the download
\* request.  o: "pdf" (a PDF-typed, non-link attachment child), "nopdf",
\* "ratelimit", "error" (non-OK response or network failure).
ChildrenResponse(c, o) ==
    /\ NoTask
    /\ call[c].pc = "children"
    /\ LET cs  == call[c]
           it  == cs.recs[cs.i]
           got == [cs EXCEPT !.llv = remoteVersion]
           row == RowsById(cs.paperId)
       IN  IF o = "ratelimit"
           THEN /\ call' = [call EXCEPT ![c] = RateLimited(cs, "children")]
                /\ UNCHANGED quietCur
           ELSE IF o = "error"
           THEN /\ call' = [call EXCEPT ![c] =
                                 DownloadFailed(ApiError(cs))]
                /\ UNCHANGED quietCur
           ELSE /\ quietCur' = TRUE
                /\ IF o = "nopdf"
                   THEN call' = [call EXCEPT ![c] = NextRecord(got)]
                   ELSE IF ~dbOpen
                   THEN \* getDb throws inside downloadPdfForPaper's try
                        call' = [call EXCEPT ![c] =
                                    DownloadFailed(Raise(got, "nodb"))]
                   ELSE IF \E p \in row : p.pdf # NoPdf /\ p.pdf \in files
                   THEN call' = [call EXCEPT ![c] = NextRecord(got)]
                   ELSE call' = [call EXCEPT ![c] =
                            [got EXCEPT !.pc = "download", !.dbh = TRUE,
                                !.fname = generatePdfFilename(
                                    ItemAuthors(it), ItemYear(it.key),
                                    files)]]
    /\ UNCHANGED <<dbOpen, syncMeta, papers, nextId, files, remote,
                   remoteVersion, isSyncing, cycles, hist,
                   created, conn,
                   pure,
                   proj>>

\* sync-engine.ts lines 271-283 and zotero-client.ts downloadFile: the file
\* response.  downloadFile does not go through request(): any non-OK
\* response raises 'Zotero file download failed: <status>', a rate-limited
\* one (o = "ratelimit", status 429) included.
DownloadResponse(c, o) ==
    /\ NoTask
    /\ call[c].pc = "download"
    /\ LET cs == call[c] IN
       IF o \in {"error", "ratelimit"}
       THEN /\ call' = [call EXCEPT ![c] =
                   DownloadFailed(Raise(cs, IF o = "ratelimit"
                                            THEN "download429"
                                            ELSE "download"))]
            /\ UNCHANGED <<papers, files>>
       ELSE /\ files' = files \cup {cs.fname}
            /\ IF ~cs.dbh
               THEN \* the captured connection was closed: prepare throws
                    /\ call' = [call EXCEPT ![c] =
                                     DownloadFailed(Raise(cs, "closed"))]
                    /\ UNCHANGED papers
               ELSE /\ papers' = {IF p.id = cs.paperId
                                  THEN [p EXCEPT !.pdf = cs.fname]
                                  ELSE p : p \in papers}
                    /\ call' = [call EXCEPT ![c] =
                            NextRecord([cs EXCEPT !.res.pdfsDownloaded = @ + 1])]
    /\ UNCHANGED <<dbOpen, syncMeta, nextId, remote, remoteVersion, isSyncing,
                   cycles, quietCur, hist,
                   created, conn,
                   pure,
                   proj>>

\* -------------------------------------------------- the extraction pass
RECURSIVE RowOrder(_)
RowOrder(S) ==
    IF S = {} THEN <<>>
    ELSE LET p == CHOOSE x \in S : \A y \in S : x.id <= y.id
         IN  <<[id |-> p.id, pdf |-> p.pdf]>> \o RowOrder(S \ {p})

\* sync-engine.ts lines 290-293: papers with a PDF and no full text
NeedExtraction == {p \in papers : p.pdf # NoPdf /\ ~p.text}

\* Variant: the cursor is saved before the extraction pass (and again after).
StartExtractionSavesCursor(c) ==
    /\ call[c].pc = "loop"
    /\ call[c].i > Len(call[c].recs)
    /\ dbOpen
    /\ syncMeta' = [syncMeta EXCEPT !.libver = call[c].llv,
                                    !.lastSync = cycles,
                                    !.cursorOf = call[c].userId]
    /\ call' = [call EXCEPT ![c] =
            [call[c] EXCEPT !.pc = "exloop", !.recs = <<>>,
                            !.exq = RowOrder(NeedExtraction), !.j = 1,
                            !.wrote = call[c].wrote + 1]]
    /\ UNCHANGED <<dbOpen, papers, nextId, files, remote, remoteVersion,
                   isSyncing, cycles, quietCur, hist,
                   created, conn,
                   pure,
                   proj>>

\* sync-engine.ts lines 208-211 and 286-297: the record loop is over;
\* extractTextForNewPapers selects its papers
StartExtraction(c) ==
    /\ call[c].pc = "loop"
    /\ call[c].i > Len(call[c].recs)
    /\ LET cs == call[c] IN
       IF ~dbOpen
       THEN /\ call' = [call EXCEPT ![c] = Fatal(Raise(cs, "nodb"))]
            /\ isSyncing' = AfterFinally
       ELSE /\ call' = [call EXCEPT ![c] =
                    IF NeedExtraction = {}
                    THEN [cs EXCEPT !.pc = "finish", !.recs = <<>>,
                                    !.thrown = "none"]
                    ELSE [cs EXCEPT !.pc = "exloop", !.recs = <<>>,
                                    !.thrown = "none",
                                    !.exq = RowOrder(NeedExtraction),
                                    !.j = 1]]
            /\ UNCHANGED isSyncing
    /\ UNCHANGED <<dbOpen, syncMeta, papers, nextId, files, remote,
                   remoteVersion, cycles, quietCur, hist,
                   created, conn,
                   pure,
                   proj>>

\* sync-engine.ts lines 299-312: one iteration, up to the extraction await
ExtractNext(c) ==
    /\ call[c].pc = "exloop"
    /\ LET cs == call[c] IN
       call' = [call EXCEPT ![c] =
           IF cs.j > Len(cs.exq)
           THEN [cs EXCEPT !.pc = "finish", !.exq = <<>>, !.j = 0]
           ELSE IF cs.exq[cs.j].pdf \notin files THEN [cs EXCEPT !.j = cs.j + 1]
           ELSE [cs EXCEPT !.pc = "extract"]]
    /\ UNCHANGED <<dbOpen, syncMeta, papers, nextId, files, remote,
                   remoteVersion, isSyncing, cycles, quietCur, hist,
                   created, conn,
                   pure,
                   proj>>

\* sync-engine.ts lines 312-316, pdf-extractor extractTextFromPdf and
\* papers.ts updatePaperFullText.  text: the extraction gave a non-empty
\* string (it gives '' on any failure and never throws).
ExtractDone(c, text) ==
    /\ NoTask
    /\ call[c].pc = "extract"
    /\ LET cs == call[c] IN
       IF text /\ ~dbOpen
       THEN \* updatePaperFullText -> getDb throws: the outer catch
            /\ call' = [call EXCEPT ![c] = Fatal(Raise(cs, "nodb"))]
            /\ isSyncing' = AfterFinally
            /\ UNCHANGED papers
       ELSE /\ papers' = IF text
                         THEN {IF p.id = cs.exq[cs.j].id
                               THEN [p EXCEPT !.text = TRUE]
                               ELSE p : p \in papers}
                         ELSE papers
            /\ call' = [call EXCEPT ![c] =
                             [cs EXCEPT !.pc = "exloop", !.j = cs.j + 1]]
            /\ UNCHANGED isSyncing
    /\ UNCHANGED <<dbOpen, syncMeta, nextId, files, remote, remoteVersion,
                   cycles, quietCur, hist,
                   created, conn,
                   pure,
                   proj>>

\* sync-engine.ts lines 213-231: the cursor write, the finally, the return
Finish(c) ==
    /\ call[c].pc = "finish"
    /\ LET cs == [call[c] EXCEPT !.res.libraryVersion = call[c].llv] IN
       IF ~dbOpen
       THEN \* setSyncMeta -> getDb throws: the outer catch
            /\ call' = [call EXCEPT ![c] = Fatal(Raise(cs, "nodb"))]
            /\ UNCHANGED syncMeta
       ELSE /\ syncMeta' = [syncMeta EXCEPT !.libver = cs.llv,
                                            !.lastSync = cycles,
                                            !.cursorOf = cs.userId]
            /\ call' = [call EXCEPT ![c] =
                    Settled([cs EXCEPT !.wrote = cs.wrote + 1])]
    /\ isSyncing' = AfterFinally
    /\ UNCHANGED <<dbOpen, papers, nextId, files, remote, remoteVersion,
                   cycles, quietCur, hist,
                   created, conn,
                   pure,
                   proj>>

\* The promise of syncLibrary is settled and the IPC reply delivered.
Return(c) ==
    /\ call[c].pc = "done"
    /\ call' = [call EXCEPT ![c] = IdleCall]
    /\ hist' = IF call[c].guard
               THEN [hist EXCEPT !.ran = TRUE, !.wrote = call[c].wrote > 0,
                                 !.quiet = quietCur]
               ELSE hist
    /\ UNCHANGED <<dbOpen, syncMeta, papers, nextId, files, remote,
                   remoteVersion, isSyncing, cycles, quietCur, created, conn,
                   pure,
                   proj>>

\* ------------------------------------------------------------ environment
\* A remote mutation: the library version grows and the item carries it.
RemoteModify(k) ==
    /\ NoTask
    /\ remoteVersion < MaxVersion
    /\ remoteVersion' = remoteVersion + 1
    /\ remote' = [remote EXCEPT ![k] = remoteVersion + 1]
    /\ quietCur' = FALSE
    /\ hist' = [hist EXCEPT !.quiet = FALSE]
    /\ UNCHANGED <<dbOpen, syncMeta, papers, nextId, files, isSyncing, call,
                   cycles, created, conn,
                   pure,
                   proj>>

\* papers.ts createPaper through 'papers:create': a paper made by hand, with
\* no external key (k = 0, zotero_key NULL) or with one given by the caller;
\* the INSERT fails on a key some row already has (zotero_key TEXT UNIQUE).
CreatePaper(k) ==
    /\ NoTask
    /\ dbOpen
    /\ created < MaxCreated
    /\ created' = created + 1
    /\ IF k # 0 /\ RowsByKey(k) # {}
       THEN UNCHANGED <<papers, nextId>>
       ELSE /\ papers' = papers \cup {NewRow(nextId, k, <<>>)}
            /\ nextId' = nextId + 1
    /\ UNCHANGED <<dbOpen, syncMeta, files, remote, remoteVersion, isSyncing,
                   call, cycles, quietCur, hist, conn,
                   pure,
                   proj>>

\* papers.ts deletePaper through 'papers:delete': the row goes, and with it
\* the file its pdf_filename names
DeletePaper(id) ==
    /\ NoTask
    /\ dbOpen
    /\ RowsById(id) # {}
    /\ papers' = papers \ RowsById(id)
    /\ files' = files \ {p.pdf : p \in RowsById(id)}
    /\ UNCHANGED <<dbOpen, syncMeta, nextId, remote, remoteVersion, isSyncing,
                   call, cycles, quietCur, hist, created, conn,
                   pure,
                   proj>>

\* A connection captured by a suspended downloadPdfForPaper is closed.
StaleHandles ==
    [c \in Callers |-> [call[c] EXCEPT !.dbh = FALSE]]

\* project-manager.ts openProject (closeDatabase, then initDatabase)
OpenProject ==
    /\ NoTask
    /\ dbOpen' = TRUE
    /\ call' = StaleHandles
    /\ UNCHANGED <<syncMeta, papers, nextId, files, remote, remoteVersion,
                   isSyncing, cycles, quietCur, hist,
                   created, conn,
                   pure,
                   proj>>

\* connection.ts closeDatabase (the Close Project menu item)
CloseProject ==
    /\ NoTask
    /\ dbOpen
    /\ dbOpen' = FALSE
    /\ call' = StaleHandles
    /\ UNCHANGED <<syncMeta, papers, nextId, files, remote, remoteVersion,
                   isSyncing, cycles, quietCur, hist,
                   created, conn,
                   pure,
                   proj>>

\* sync-engine.ts lines 105-110 disconnectZotero (it raises with no
\* database open, before any write)
DisconnectZotero ==
    /\ NoTask
    /\ dbOpen
    /\ syncMeta' = [enc |-> "none", legacy |-> FALSE, user |-> FALSE,
                    libver |-> NoRow, lastSync |-> 0,
                   account |-> "none", cursorOf |-> "none"]
    /\ quietCur' = FALSE
    /\ hist' = [hist EXCEPT !.quiet = FALSE]
    /\ UNCHANGED <<dbOpen, papers, nextId, files, remote, remoteVersion,
                   isSyncing, call, cycles, created, conn,
                   pure,
                   proj>>

\* ---------------------------------------------------------- connectZotero
\* What the renderer passes: an API key that is blank or not, an account
\* identifier that is blank, has a non-digit, or is all digits.
ApiKeyInputs == {"blank", "key"}

UserIdInputs == {"blank", "letters", "101", "202"}

\* sync-engine.ts lines 78-88: the input validation (the error it returns)
InputError(k, u) ==
    IF k = "blank" THEN "API key is required"
    ELSE IF u = "blank" THEN "User ID is required"
    ELSE IF u = "letters" THEN "User ID must be numeric"
    ELSE "none"

ConnDone(out, validated, valid, error) ==
    [IdleConn EXCEPT !.pc = "done", !.out = out, !.validated = validated,
                     !.valid = valid, !.error = error]

\* sync-engine.ts lines 73-92: from the call to the validation request
ConnectZotero(k, u) ==
    /\ NoTask
    /\ conn.pc = "idle"
    /\ conn' = IF InputError(k, u) # "none"
               THEN ConnDone("result", FALSE, FALSE, InputError(k, u))
               ELSE [IdleConn EXCEPT !.pc = "validate", !.userId = u]
    /\ UNCHANGED <<dbOpen, syncMeta, papers, nextId, files, remote,
                   remoteVersion, isSyncing, call, cycles, quietCur, hist,
                   created, pure,
                   proj>>

\* zotero-client.ts validateCredentials (lines 108-120) with request (lines
\* 66-96), and sync-engine.ts lines 92-102: the response to the validation
\* request.  o: "ok", "ratelimit", "error" (non-OK response, network failure).
ValidateResponse(o) ==
    /\ NoTask
    /\ conn.pc = "validate"
    /\ IF o = "ratelimit"
       THEN /\ conn' = [conn EXCEPT !.pc = "sleep"]
            /\ UNCHANGED syncMeta
       ELSE IF o = "error"
       THEN /\ conn' = ConnDone("result", FALSE, FALSE, "api")
            /\ UNCHANGED syncMeta
       ELSE IF ~dbOpen
       THEN \* storeApiKey -> setSyncMeta -> getDb throws
            /\ conn' = ConnDone("raised", TRUE, FALSE, "none")
            /\ UNCHANGED syncMeta
       ELSE /\ conn' = ConnDone("result", TRUE, TRUE, "none")
            /\ syncMeta' = [syncMeta EXCEPT !.enc = "ok", !.legacy = FALSE,
                                            !.user = TRUE,
                                            !.account = conn.userId]
    /\ UNCHANGED <<dbOpen, papers, nextId, files, remote, remoteVersion,
                   isSyncing, call, cycles, quietCur, hist, created, pure,
                   proj>>

\* zotero-client.ts lines 66, 79-80, 98 under validateCredentials' catch
\* (lines 113-119): the sleep ends; retry, or give up with a result
ValidateWake ==
    /\ NoTask
    /\ conn.pc = "sleep"
    /\ conn' = IF AttemptLeft(conn.attempt + 1)
               THEN [conn EXCEPT !.pc = "validate", !.attempt = @ + 1]
               ELSE ConnDone("result", FALSE, FALSE, "api")
    /\ UNCHANGED <<dbOpen, syncMeta, papers, nextId, files, remote,
                   remoteVersion, isSyncing, call, cycles, quietCur, hist,
                   created, pure,
                   proj>>

\* The promise of connectZotero is settled and the IPC reply delivered.
ConnectReturn ==
    /\ conn.pc = "done"
    /\ conn' = IdleConn
    /\ UNCHANGED <<dbOpen, syncMeta, papers, nextId, files, remote,
                   remoteVersion, isSyncing, call, cycles, quietCur, hist,
                   created, pure,
                   proj>>

Next ==
    \/ \E c \in Callers : SyncLibrary(c)
    \/ \E c \in Callers, o \in {"ok", "ratelimit", "error"} : ItemsResponse(c, o)
    \/ \E c \in Callers : Wake(c)
    \/ \E c \in Callers, o \in {"ok", "throwBefore", "throwAfterRow"} :
            ProcessRecord(c, o)
    \/ \E c \in Callers, o \in {"pdf", "nopdf", "ratelimit", "error"} :
            ChildrenResponse(c, o)
    \/ \E c \in Callers, o \in {"ok", "ratelimit", "error"} :
            DownloadResponse(c, o)
    \/ \E c \in Callers : StartExtraction(c)
    \/ \E c \in Callers : ExtractNext(c)
    \/ \E c \in Callers, text \in BOOLEAN : ExtractDone(c, text)
    \/ \E c \in Callers : Finish(c)
    \/ \E c \in Callers : Return(c)
    \/ \E k \in Keys : RemoteModify(k)
    \/ OpenProject
    \/ CloseProject
    \/ DisconnectZotero

Spec == Init /\ [][Next]_vars

\* The pipeline together with the paper handlers of the renderer, for the
\* properties of the local store.  One window drives the synchronisation;
\* rate limiting and disconnecting, which touch neither the papers nor the
\* files, are left out.
StoreNext ==
    \/ SyncLibrary(1)
    \/ \E o \in {"ok", "error"} : ItemsResponse(1, o)
    \/ \E o \in {"ok", "throwBefore", "throwAfterRow"} : ProcessRecord(1, o)
    \/ \E o \in {"pdf", "nopdf", "error"} : ChildrenResponse(1, o)
    \/ \E o \in {"ok", "error"} : DownloadResponse(1, o)
    \/ StartExtraction(1)
    \/ ExtractNext(1)
    \/ \E text \in BOOLEAN : ExtractDone(1, text)
    \/ Finish(1)
    \/ Return(1)
    \/ \E k \in Keys : RemoteModify(k)
    \/ OpenProject
    \/ CloseProject
    \/ \E k \in {0} \cup Keys : CreatePaper(k)
    \/ \E id \in {p.id : p \in papers} : DeletePaper(id)

StoreSpec == Init /\ [][StoreNext]_vars

\* Connecting and disconnecting, with projects opened and closed and a
\* synchronisation of records without attachments running alongside.
ConnectNext ==
    \/ \E k \in ApiKeyInputs, u \in UserIdInputs : ConnectZotero(k, u)
    \/ \E o \in {"ok", "ratelimit", "error"} : ValidateResponse(o)
    \/ ValidateWake
    \/ ConnectReturn
    \/ DisconnectZotero
    \/ OpenProject
    \/ CloseProject
    \/ \E k \in Keys : RemoteModify(k)
    \/ SyncLibrary(1)
    \/ \E o \in {"ok", "error"} : ItemsResponse(1, o)
    \/ ProcessRecord(1, "ok")
    \/ ChildrenResponse(1, "nopdf")
    \/ StartExtraction(1)
    \/ Finish(1)
    \/ Return(1)

ConnectSpec == Init /\ [][ConnectNext]_vars

\* ---------------------------------------------------------- pure functions
\* A string the code builds from pieces is the sequence of its pieces; an
\* absent (undefined) or empty field is "".
Creators ==
    [creatorType : {"author", "editor"}, name : {"", "WHO"},
     lastName : {"", "Doe"}, firstName : {"", "Jane"}]

MaxCreators == 2

CreatorLists ==
    UNION {[1..n -> Creators] : n \in 0..MaxCreators}

\* Variant: given name first, no comma.
AuthorNameFirstLast(c) ==
    IF c.name # "" THEN <<c.name>>
    ELSE IF c.lastName # "" /\ c.firstName # ""
    THEN <<c.firstName, " ", c.lastName>>
    ELSE IF c.lastName # "" THEN <<c.lastName>>
    ELSE IF c.firstName # "" THEN <<c.firstName>>
    ELSE <<"Unknown">>

\* zotero-client.ts lines 203-207: the string of one creator
AuthorName(c) ==
    IF c.name # "" THEN <<c.name>>
    ELSE IF c.lastName # "" /\ c.firstName # ""
    THEN <<c.lastName, ", ", c.firstName>>
    ELSE IF c.lastName # "" THEN <<c.lastName>>
    ELSE IF c.firstName # "" THEN <<c.firstName>>
    ELSE <<"Unknown">>

IsAuthor(c) == c.creatorType = "author"

\* zotero-client.ts lines 197-208 extractAuthors; a is the creators argument,
\* a.defined = FALSE standing for undefined
extractAuthors(a) ==
    IF ~a.defined THEN <<>>
    ELSE LET as == SelectSeq(a.list, IsAuthor)
         IN  [i \in 1..Len(as) |-> AuthorName(as[i])]

ExtractCalls ==
    {[fn |-> "extractAuthors", arg |-> [defined |-> d, list |-> l],
      done |-> FALSE, res |-> <<>>] :
        d \in BOOLEAN, l \in CreatorLists}

\* The files a directory may hold for one author/year: the base name and
\* the suffixed names up to some letter, possibly with one of them missing,
\* possibly with timestamped names.
NamerArgs ==
    [authors : {<<>>, <<"Smith">>, <<"Smith", "Jones">>,
                <<"Smith", "Jones", "Lee">>},
     year : {0, 2024}]

PdfName(a, n) ==
    [author |-> AuthorPart(a.authors), year |-> a.year, suffix |-> n]

Stamps(a) == {PdfName(a, NUM_SUFFIXES + 1 + t) : t \in 0..MaxCycles}

PureDirs(a) ==
    {({PdfName(a, k) : k \in 0..(n - 1)} \ {PdfName(a, h)}) \cup T :
        n \in 0..(NUM_SUFFIXES + 1), h \in {-1, 0, 1, NUM_SUFFIXES},
        T \in SUBSET Stamps(a)}

NamerCalls ==
    {[fn |-> "generatePdfFilename", arg |-> a, done |-> FALSE,
      res |-> NoPdf] : a \in NamerArgs}

\* A JavaScript number: an integer or NaN.
Number(v) == [nan |-> FALSE, v |-> v]

NaN == [nan |-> TRUE, v |-> 0]

DigitChars == <<"0", "1", "2", "3", "4", "5", "6", "7", "8", "9">>

IsDigit(ch) == \E i \in 1..10 : DigitChars[i] = ch

DigitVal(ch) == (CHOOSE i \in 1..10 : DigitChars[i] = ch) - 1

RECURSIVE TrimStart(_)
TrimStart(s) ==
    IF s # <<>> /\ Head(s) = " " THEN TrimStart(Tail(s)) ELSE s

RECURSIVE DigitPrefix(_)
DigitPrefix(s) ==
    IF s = <<>> \/ ~IsDigit(Head(s)) THEN <<>>
    ELSE <<Head(s)>> \o DigitPrefix(Tail(s))

RECURSIVE NumberOf(_)
NumberOf(d) ==
    IF d = <<>> THEN 0
    ELSE NumberOf(SubSeq(d, 1, Len(d) - 1)) * 10 + DigitVal(d[Len(d)])

\* parseInt(s, 10): leading white space is skipped, a sign is read, then
\* the longest prefix of decimal digits; NaN when there is no digit.
parseInt(s) ==
    LET t == TrimStart(s)
        u == IF t # <<>> /\ Head(t) \in {"-", "+"} THEN Tail(t) ELSE t
        d == DigitPrefix(u)
    IN  IF d = <<>> THEN NaN
        ELSE IF Head(t) = "-" THEN Number(0 - NumberOf(d))
        ELSE Number(NumberOf(d))

\* zotero-client.ts line 74: res.headers.get('Backoff') ||
\* res.headers.get('Retry-After'); a header value is the sequence of its
\* characters, <<>> for an absent (null) or empty header.
BackoffHint(r) == IF r.backoff # <<>> THEN r.backoff ELSE r.retryAfter

\* zotero-client.ts line 75: res.status === 429 || backoff
RateLimitSignal(r) == r.status = 429 \/ BackoffHint(r) # <<>>

\* zotero-client.ts line 76: parseInt(backoff || '5', 10) * 1000
WaitMs(r) ==
    LET n == parseInt(IF BackoffHint(r) # <<>> THEN BackoffHint(r)
                                              ELSE <<"5">>)
    IN  IF n.nan THEN NaN ELSE Number(n.v * 1000)

\* Header values: absent, numbers of seconds, a number with a unit, an
\* HTTP date, a padded number.
HeaderValues ==
    {<<>>, <<"7">>, <<"1", "2">>, <<"0">>, <<"3", "s">>,
     <<"W", "e", "d", ",", " ", "2", "1">>, <<" ", "4">>}

Responses ==
    [status : {200, 429, 500}, backoff : HeaderValues,
     retryAfter : HeaderValues]

WaitCalls ==
    {[fn |-> "waitMs", arg |-> r, done |-> FALSE, slept |-> FALSE,
      res |-> NaN] : r \in Responses}

PureInit ==
    /\ dbOpen = FALSE
    /\ syncMeta = [enc |-> "none", legacy |-> FALSE, user |-> FALSE,
                   libver |-> NoRow, lastSync |-> 0,
                   account |-> "none", cursorOf |-> "none"]
    /\ papers = {}
    /\ nextId = 1
    /\ remote = [k \in Keys |-> 0]
    /\ remoteVersion = 0
    /\ isSyncing = FALSE
    /\ call = [c \in Callers |-> IdleCall]
    /\ quietCur = TRUE
    /\ hist = [ran |-> FALSE, wrote |-> FALSE, quiet |-> FALSE,
               seen |-> [k \in Keys |-> 0]]
    /\ created = 0
    /\ conn = IdleConn
    /\ \/ pure \in ExtractCalls /\ files = {} /\ cycles = 0
       \/ pure \in WaitCalls /\ files = {} /\ cycles = 0
       \/ /\ pure \in NamerCalls
          /\ files \in PureDirs(pure.arg)
          /\ cycles \in 0..MaxCycles
    /\ proj = NoProject

ApplyExtractAuthors ==
    /\ pure.fn = "extractAuthors" /\ ~pure.done
    /\ pure' = [pure EXCEPT !.done = TRUE, !.res = extractAuthors(pure.arg)]
    /\ UNCHANGED <<dbOpen, syncMeta, papers, nextId, files, remote,
                   remoteVersion, isSyncing, call, cycles, quietCur, hist,
                   created, conn,
                   proj>>

\* The clock (Date.now()) is the model's cycles.
ApplyGeneratePdfFilename ==
    /\ pure.fn = "generatePdfFilename" /\ ~pure.done
    /\ pure' = [pure EXCEPT !.done = TRUE,
                    !.res = generatePdfFilename(pure.arg.authors,
                                                pure.arg.year, files)]
    /\ UNCHANGED <<dbOpen, syncMeta, papers, nextId, files, remote,
                   remoteVersion, isSyncing, call, cycles, quietCur, hist,
                   created, conn,
                   proj>>

\* zotero-client.ts lines 74-81: one response seen by request(); slept says
\* whether this.sleep was called, res is its argument.
ApplyWaitMs ==
    /\ pure.fn = "waitMs" /\ ~pure.done
    /\ pure' = [pure EXCEPT !.done = TRUE,
                    !.slept = RateLimitSignal(pure.arg),
                    !.res = IF RateLimitSignal(pure.arg)
                            THEN WaitMs(pure.arg) ELSE NaN]
    /\ UNCHANGED <<dbOpen, syncMeta, papers, nextId, files, remote,
                   remoteVersion, isSyncing, call, cycles, quietCur, hist,
                   created, conn,
                   proj>>

PureNext == ApplyExtractAuthors \/ ApplyGeneratePdfFilename \/ ApplyWaitMs

PureSpec == PureInit /\ [][PureNext]_vars

\* ------------------------------------------------------------- projects
\* Several project directories, each with its own database and attachment
\* directory.  proj holds the three module-level handles (project-manager.ts
\* activeProject; connection.ts activeProjectDir and db; 0 is null), the
\* project directories on disk, and one sync cycle seen by the project each
\* of its writes goes to: home is the project whose database the cursor was
\* read from, pdfDir and dbh are the directory and the connection the cycle
\* captured, left the records still to handle, wrote the writes done so far
\* as <<what, project>>.
MaxProjects == 2

MaxRecs == 2

Projects == 1..MaxProjects

\* The project operations and the cycle seen by project leave the contents
\* of the databases aside.
ProjFrame ==
    UNCHANGED <<dbOpen, syncMeta, papers, nextId, files, remote,
                remoteVersion, isSyncing, call, cycles, quietCur, hist,
                created, conn, pure>>

\* connection.ts lines 81-88 closeDatabase, applied to q
Closed(q) ==
    IF q.db # 0 THEN [q EXCEPT !.db = 0, !.dir = 0, !.dbh = 0] ELSE q

\* project-manager.ts lines 81-106 createProject (it raises, changing
\* nothing, when the directory exists)
ProjCreate(p) ==
    /\ p \notin proj.exists
    /\ proj' = [Closed(proj) EXCEPT !.exists = proj.exists \cup {p},
                                    !.dir = p, !.db = p, !.active = p]
    /\ ProjFrame

\* project-manager.ts lines 109-137 openProject and connection.ts lines
\* 40-70 initDatabase (it raises, changing nothing, when the path does not
\* exist).  o: "ok"; "initThrows" (mkdirSync or new Database raises, after
\* activeProjectDir is set); "schemaThrows" (a pragma, runSchema or setupFts
\* raises, after db is set).
ProjOpen(p, o) ==
    /\ p \in proj.exists
    /\ proj' = IF o = "ok"
               THEN [Closed(proj) EXCEPT !.dir = p, !.db = p, !.active = p]
               ELSE IF o = "initThrows"
               THEN [Closed(proj) EXCEPT !.dir = p]
               ELSE [Closed(proj) EXCEPT !.dir = p, !.db = p]
    /\ ProjFrame

\* project-manager.ts lines 166-181 deleteProject
ProjDelete(p) ==
    /\ p \in proj.exists
    /\ proj' = [(IF proj.active = p
                 THEN [Closed(proj) EXCEPT !.active = 0]
                 ELSE proj) EXCEPT !.exists = proj.exists \ {p}]
    /\ ProjFrame

\* The Close Project menu item: if (getActiveProject()) closeDatabase()
ProjCloseMenu ==
    /\ proj.active # 0 /\ proj.db # 0
    /\ proj' = Closed(proj)
    /\ ProjFrame

\* sync-engine.ts lines 126-149: the cycle starts (credentials and cursor
\* are read from the open database, every project holding credentials) and
\* waits for the record fetch
ProjSyncStart ==
    /\ proj.pc = "idle" /\ proj.db # 0
    /\ proj' = [proj EXCEPT !.pc = "fetch", !.home = proj.db,
                            !.pdfDir = 0, !.dbh = 0, !.left = MaxRecs,
                            !.wrote = {}]
    /\ ProjFrame

\* sync-engine.ts lines 149-162: the records arrive; getPdfDir() is
\* captured (it raises without an active directory: the outer catch)
ProjFetched ==
    /\ proj.pc = "fetch"
    /\ proj' = IF proj.dir = 0 THEN [proj EXCEPT !.pc = "idle"]
               ELSE [proj EXCEPT !.pc = "loop", !.pdfDir = proj.dir]
    /\ ProjFrame

\* One record handled: the loop goes on
ProjNextRecord(q) == [q EXCEPT !.pc = "loop", !.left = q.left - 1, !.dbh = 0]

\* sync-engine.ts lines 164-200: the upsert of a record through getDb()
\* (it raises without a database: the per-record catch), then the wait for
\* the children
ProjUpsert ==
    /\ proj.pc = "loop" /\ proj.left > 0
    /\ proj' = IF proj.db = 0 THEN ProjNextRecord(proj)
               ELSE [proj EXCEPT !.pc = "children",
                         !.wrote = proj.wrote \cup {<<"paper", proj.db>>}]
    /\ ProjFrame

\* sync-engine.ts lines 246-271: the children arrive; with a PDF child the
\* connection is captured (getDb()) and the file requested
ProjChildren(o) ==
    /\ proj.pc = "children"
    /\ proj' = IF o = "nopdf" \/ proj.db = 0 THEN ProjNextRecord(proj)
               ELSE [proj EXCEPT !.pc = "download", !.dbh = proj.db]
    /\ ProjFrame

\* sync-engine.ts lines 271-277: the file arrives; writeFileSync into the
\* captured directory (it raises when the directory is gone), then the
\* UPDATE on the captured connection (it raises when that one is closed)
ProjDownloaded ==
    /\ proj.pc = "download"
    /\ proj' = IF proj.pdfDir \notin proj.exists THEN ProjNextRecord(proj)
               ELSE IF proj.dbh = 0
               THEN ProjNextRecord([proj EXCEPT !.wrote =
                        proj.wrote \cup {<<"file", proj.pdfDir>>}])
               ELSE ProjNextRecord([proj EXCEPT !.wrote =
                        proj.wrote \cup {<<"file", proj.pdfDir>>,
                                         <<"filename", proj.dbh>>}])
    /\ ProjFrame

\* sync-engine.ts lines 210-216 and 286-312: after the last record the
\* extraction pass selects its papers through getDb(); with none (o =
\* "none") the cursor is written at once, else the first extraction is
\* awaited
ProjStartExtraction(o) ==
    /\ proj.pc = "loop" /\ proj.left = 0
    /\ proj' = IF proj.db = 0 THEN [proj EXCEPT !.pc = "idle"]
               ELSE IF o = "none"
               THEN [proj EXCEPT !.pc = "idle",
                         !.wrote = proj.wrote \cup {<<"cursor", proj.db>>}]
               ELSE [proj EXCEPT !.pc = "extract"]
    /\ ProjFrame

\* sync-engine.ts lines 312-316 and 213-216: the text is stored and the
\* cursor written, both through getDb()
ProjExtracted ==
    /\ proj.pc = "extract"
    /\ proj' = IF proj.db = 0 THEN [proj EXCEPT !.pc = "idle"]
               ELSE [proj EXCEPT !.pc = "idle",
                         !.wrote = proj.wrote \cup {<<"text", proj.db>>,
                                                    <<"cursor", proj.db>>}]
    /\ ProjFrame

ProjInit ==
    /\ dbOpen = FALSE
    /\ syncMeta = [enc |-> "none", legacy |-> FALSE, user |-> FALSE,
                   libver |-> NoRow, lastSync |-> 0,
                   account |-> "none", cursorOf |-> "none"]
    /\ papers = {}
    /\ nextId = 1
    /\ files = {}
    /\ remote = [k \in Keys |-> 0]
    /\ remoteVersion = 0
    /\ isSyncing = FALSE
    /\ call = [c \in Callers |-> IdleCall]
    /\ cycles = 0
    /\ quietCur = TRUE
    /\ hist = [ran |-> FALSE, wrote |-> FALSE, quiet |-> FALSE,
               seen |-> [k \in Keys |-> 0]]
    /\ created = 0
    /\ conn = IdleConn
    /\ pure = NoCall
    /\ \E E \in SUBSET Projects : proj = [NoProject EXCEPT !.exists = E]

ProjNext ==
    \/ \E p \in Projects : ProjCreate(p)
    \/ \E p \in Projects : ProjOpen(p, "ok")
    \/ \E p \in Projects : ProjOpen(p, "initThrows")
    \/ \E p \in Projects : ProjOpen(p, "schemaThrows")
    \/ \E p \in Projects : ProjDelete(p)
    \/ ProjCloseMenu
    \/ ProjSyncStart
    \/ ProjFetched
    \/ ProjUpsert
    \/ ProjChildren("pdf")
    \/ ProjChildren("nopdf")
    \/ ProjDownloaded
    \/ ProjStartExtraction("none")
    \/ ProjStartExtraction("some")
    \/ ProjExtracted

ProjSpec == ProjInit /\ [][ProjNext]_vars

\* ==================================================================
\* Properties
\* ==================================================================
\* A cycle in flight: the call set the guard and has not settled.
InFlight(c) == call[c].guard /\ Running(c)

Rejected == [EmptyResult EXCEPT !.errors = <<Err("already", 0)>>]

Invoked(c) == call[c].pc = "idle" /\ call'[c].pc # "idle"

\* C1: at most one sync cycle is in flight at any time; a syncLibrary call
\* made while another call is in flight (suspended at an await) settles in
\* the same step with imported = updated = pdfsDownloaded = 0 and the single
\* error "already in progress", and writes nothing to the papers table, the
\* attachment directory or sync_meta (the cursor).
C1_MutualExclusion ==
    /\ [](\A c, d \in Callers : InFlight(c) /\ InFlight(d) => c = d)
    /\ [][\A c \in Callers :
            (Invoked(c) /\ \E d \in Callers : InFlight(d))
            => /\ call'[c].pc = "done"
               /\ call'[c].out = "result"
               /\ call'[c].res = Rejected
               /\ papers' = papers
               /\ files' = files
               /\ syncMeta' = syncMeta]_vars

C1_Witness ==
    \E c, d \in Callers :
        /\ call[c].pc = "done" /\ call[c].res = Rejected
        /\ InFlight(d) /\ call[d].pc \in {"download", "sleep"}

\* C2: a cycle whose fetch of the changed records raised (non-OK response,
\* network failure or retry ceiling) wrote no cursor, upserted no paper, and
\* returns exactly one error, all counters 0 and libraryVersion 0; the step
\* in which the fetch fails changes neither sync_meta nor the papers.
C2_FetchFailure ==
    /\ [](\A c \in Callers :
            (call[c].pc = "done" /\ call[c].fetchFailed)
            => /\ call[c].out = "result"
               /\ call[c].res =
                    [EmptyResult EXCEPT !.errors = <<Err("fatal", 0)>>]
               /\ call[c].wrote = 0
               /\ call[c].ups = 0)
    /\ [][\A c \in Callers :
            (call'[c].fetchFailed /\ ~call[c].fetchFailed)
            => syncMeta' = syncMeta /\ papers' = papers /\ files' = files]_vars

C2_Witness ==
    \E c \in Callers :
        /\ call[c].pc = "done" /\ call[c].fetchFailed
        /\ syncMeta.libver > 0 /\ syncMeta.lastSync > 0 /\ papers # {}

\* C3: a cycle that fetched N article records of which exactly one, record
\* K, raised in its metadata upsert, and in which nothing else failed,
\* returns one error (the entry for K) and imported + updated = N - 1, has
\* gone through every record, and has advanced the persisted cursor to the
\* library version observed by the client in this cycle.
C3_PartialFailure ==
    \A c \in Callers :
        (/\ call[c].pc = "done" /\ call[c].guard
         /\ call[c].upFails = 1 /\ call[c].dlFails = 0 /\ ~call[c].fatal)
        => /\ call[c].res.errors = <<Err("import", call[c].failKey)>>
           /\ call[c].res.imported + call[c].res.updated = call[c].nrecs - 1
           /\ call[c].i = call[c].nrecs + 1
           /\ call[c].wrote = 1
           /\ syncMeta.libver = call[c].llv
           /\ call[c].res.libraryVersion = call[c].llv

C3_Witness ==
    \E c \in Callers :
        /\ call[c].pc = "done" /\ call[c].guard /\ ~call[c].fatal
        /\ call[c].upFails = 1 /\ call[c].dlFails = 0
        /\ call[c].nrecs = 2 /\ call[c].failIdx = 1
        /\ call[c].res.imported + call[c].res.updated = 1

\* C4 as stated: the libraryVersion of every cycle's result is at least the
\* cursor read at the start of the cycle, and equals that old cursor when
\* the initial fetch fails entirely.
C4_Original ==
    \A c \in Callers :
        (call[c].pc = "done" /\ call[c].guard)
        => /\ call[c].res.libraryVersion >= call[c].since
           /\ call[c].fetchFailed
                => call[c].res.libraryVersion = call[c].since

\* C4 as amended: the libraryVersion of the result of a cycle that ends
\* without a fatal error is the library version of the last response the
\* client received and is at least the cursor read at the start; when the
\* initial fetch fails entirely it is 0, whatever the old cursor was.
C4_CursorMonotone ==
    \A c \in Callers :
        (call[c].pc = "done" /\ call[c].guard)
        => /\ ~call[c].fatal
                => /\ call[c].res.libraryVersion >= call[c].since
                   /\ call[c].res.libraryVersion = call[c].llv
           /\ call[c].fetchFailed => call[c].res.libraryVersion = 0

C4_Witness ==
    \E c \in Callers :
        /\ call[c].pc = "done" /\ call[c].fetchFailed
        /\ call[c].since > 0 /\ call[c].res.libraryVersion = 0

\* C5: a cycle that set the guard has released it when it settles, on every
\* path (normal end, fetch failure, an exception in the record loop, in the
\* extraction pass or in the cursor write); the guard is set only while a
\* cycle is in flight, so a call is rejected with "already in progress"
\* only while another cycle is in flight.
C5_GuardReleased ==
    /\ \A c \in Callers : (call[c].pc = "done" /\ call[c].guard) => ~isSyncing
    /\ isSyncing => \E c \in Callers : InFlight(c)
    /\ \A c \in Callers :
          (call[c].pc = "done" /\ call[c].res = Rejected)
          => \E d \in Callers : InFlight(d)

C5_Witness ==
    \E c \in Callers :
        /\ call[c].pc = "done" /\ call[c].guard
        /\ call[c].fatal /\ ~call[c].fetchFailed /\ ~isSyncing

\* C6: syncLibrary always settles by returning a SyncResult, never by
\* raising, in every reachable state (also with no project database open).
C6_AlwaysResult ==
    \A c \in Callers : call[c].pc = "done" => call[c].out = "result"

\* "No API key or no account identifier is stored" in an open database.
KeyStored(m) == m.enc # "none" \/ m.legacy

NoCredentials == dbOpen /\ (~KeyStored(syncMeta) \/ ~syncMeta.user)

ZeroCounters(r) ==
    r.imported = 0 /\ r.updated = 0 /\ r.pdfsDownloaded = 0
        /\ r.libraryVersion = 0

C8_IdempotentResync ==
    \A c \in Callers :
        (/\ call[c].pc = "done" /\ call[c].guard
         /\ hist.ran /\ hist.wrote /\ hist.quiet)
        => call[c].res.imported = 0 /\ call[c].res.updated = 0

C8_Witness ==
    \E c \in Callers :
        /\ call[c].pc = "done" /\ call[c].guard /\ ~call[c].fatal
        /\ hist.ran /\ hist.wrote /\ hist.quiet
        /\ call[c].since > 0 /\ Cardinality(papers) = 2

CursorOf(m) == <<m.libver, m.lastSync>>

\* C10: within one cycle the cursor is read once, at the start (the value
\* read stays the cycle's since), and written at most once; a step of a
\* call that changes the persisted cursor is the cycle's last step, taken
\* after every fetched record has been processed and the extraction pass
\* has finished, so no write happens during the record loop and none is
\* undone later in the cycle.
C10_CursorWrittenLast ==
    /\ [](\A c \in Callers : call[c].wrote <= 1)
    /\ [][\A c \in Callers :
            (InFlight(c) /\ call'[c].pc # "idle")
            => call'[c].since = call[c].since]_vars
    /\ [][(CursorOf(syncMeta') # CursorOf(syncMeta) /\ call' # call)
            => \E c \in Callers :
                /\ call[c].pc = "finish"
                /\ call[c].i = call[c].nrecs + 1
                /\ call[c].exq = <<>>
                /\ call'[c].pc = "done"
                /\ call'[c].wrote = call[c].wrote + 1]_vars
    /\ [][\A c \in Callers :
            call'[c].wrote > call[c].wrote => call'[c].pc = "done"]_vars

C10_Witness ==
    \E c \in Callers :
        /\ call[c].pc = "done" /\ call[c].wrote = 1 /\ call[c].nrecs = 2
        /\ \E p \in papers : p.text

\* C11: whatever fails for one paper in the extraction pass (the extraction
\* gives the empty string, the file is missing, or storing the text fails),
\* the step that ends the paper's extraction adds no entry to the result's
\* errors and the pass goes on, so that the cursor write is still reached.
C11_ExtractionSilent ==
    [][\A c \in Callers :
        (call[c].pc = "extract" /\ call'[c].pc # "extract")
        => /\ call'[c].res.errors = call[c].res.errors
           /\ call'[c].pc = "exloop"]_vars

\* The record a call at the record loop is about to process.
Current(c) == call[c].recs[call[c].i]

Upserting(c) ==
    /\ call[c].pc = "loop" /\ call[c].i <= Len(call[c].recs)
    /\ call'[c].ups = call[c].ups + 1

\* C12: in every state reached by sync cycles, papers made by hand and
\* deletions, at most one paper carries a given non-null external key (and
\* local identifiers are unique); an upsert of a record whose key a paper
\* already carries leaves the set of local identifiers as it is and the
\* paper with that key keeps its identifier.
C12_UniqueExternalKey ==
    /\ [](\A p, q \in papers :
            (p.id = q.id \/ (p.zkey # 0 /\ p.zkey = q.zkey)) => p = q)
    /\ [][\A c \in Callers :
            (Upserting(c) /\ RowsByKey(Current(c).key) # {})
            => /\ {p.id : p \in papers'} = {p.id : p \in papers}
               /\ Cardinality(papers') = Cardinality(papers)
               /\ \A p \in papers, q \in papers' :
                    (p.zkey = Current(c).key /\ q.zkey = Current(c).key)
                    => q.id = p.id]_vars

C12_Witness ==
    \E c \in Callers :
        /\ call[c].pc = "children" /\ call[c].res.updated = 1
        /\ Cardinality(papers) = 2 /\ created = 1
        /\ \E p \in papers : p.zkey = Current(c).key /\ p.zver > 0

\* C13: in every state reached by sync cycles and deletions no two papers
\* reference the same attachment filename, and while a download is awaited
\* the name its file will be written under is referenced by no paper other
\* than the one the download is for.
C13_AttachmentOwnership ==
    /\ \A p, q \in papers : (p.pdf # NoPdf /\ p.pdf = q.pdf) => p = q
    /\ \A c \in Callers :
          call[c].pc = "download"
          => \A p \in papers :
                p.pdf = call[c].fname => p.id = call[c].paperId

C13_Witness ==
    \E p, q \in papers :
        /\ p.pdf # NoPdf /\ q.pdf # NoPdf /\ p # q
        /\ p.pdf.author = q.pdf.author /\ p.pdf.year = q.pdf.year
        /\ p.pdf \in files /\ q.pdf \in files

Stored(m) == m.enc = "ok" /\ ~m.legacy /\ m.user

\* C14: validation never raises (a failed request gives valid = false with
\* an error); when a connectZotero call settles, the key and the account
\* identifier have been stored if validation returned valid, and otherwise
\* the call returns valid = false with an error and sync_meta is unchanged.
C14_ConnectStoresIffValid ==
    [][(conn.pc # "done" /\ conn'.pc = "done")
        => IF conn'.validated
           THEN Stored(syncMeta') /\ conn'.out = "result" /\ conn'.valid
           ELSE /\ conn'.out = "result" /\ ~conn'.valid
                /\ conn'.error # "none"
                /\ syncMeta' = syncMeta]_vars

Extracted == pure.fn = "extractAuthors" /\ pure.done

AuthorsOf(a) == IF a.defined THEN SelectSeq(a.list, IsAuthor) ELSE <<>>

\* C15: extractAuthors returns, in the creators' order, one string for each
\* creator whose role is "author" and nothing for any other role: the raw
\* name when the creator has a single-field name, "Last, First" when it has
\* none and both name parts are present, and "Unknown" when no part is
\* present at all.
C15_ExtractAuthors ==
    Extracted =>
        LET as == AuthorsOf(pure.arg) IN
        /\ Len(pure.res) = Len(as)
        /\ \A i \in 1..Len(as) :
            /\ as[i].name # "" => pure.res[i] = <<as[i].name>>
            /\ (as[i].name = "" /\ as[i].lastName # "" /\ as[i].firstName # "")
                => pure.res[i] = <<as[i].lastName, ", ", as[i].firstName>>
            /\ (as[i].name = "" /\ as[i].lastName = "" /\ as[i].firstName = "")
                => pure.res[i] = <<"Unknown">>

C15_Witness ==
    /\ Extracted
    /\ Len(pure.arg.list) = 2
    /\ pure.arg.list[1].creatorType = "editor"
    /\ pure.res = <<<<"Doe", ", ", "Jane">>>>

Named == pure.fn = "generatePdfFilename" /\ pure.done

\* C16: generatePdfFilename returns the base name when no file has it,
\* otherwise the name with the first of the suffixes b..z that no file has,
\* otherwise a timestamped name; in every case the name it returns is not
\* the name of an existing file.
C16_PdfFilenameFree ==
    Named =>
        LET free == {n \in 0..NUM_SUFFIXES : PdfName(pure.arg, n) \notin files}
        IN  /\ pure.res \notin files
            /\ pure.res.author = AuthorPart(pure.arg.authors)
            /\ pure.res.year = pure.arg.year
            /\ IF free # {}
               THEN pure.res.suffix \in free
                    /\ \A n \in free : pure.res.suffix <= n
               ELSE pure.res.suffix > NUM_SUFFIXES

\* C17: when the upsert of a record whose external key a paper already
\* carries has returned, that paper's stored author list is the list
\* derived from the remote record, the empty list included, and its
\* metadata carry the record's version.
C17_UpsertReplacesAuthors ==
    [][\A c \in Callers :
        (/\ Upserting(c) /\ RowsByKey(Current(c).key) # {}
         /\ call'[c].pc = "children")
        => \A q \in papers' :
              q.zkey = Current(c).key
              => /\ q.authors = ItemAuthors(Current(c))
                 /\ q.zver = Current(c).version]_vars

Requesting(c) == call[c].pc \in {"fetchItems", "children"}

SameRequest(c) ==
    /\ call'[c].start = call[c].start /\ call'[c].i = call[c].i
    /\ call'[c].items = call[c].items /\ call'[c].since = call[c].since
    /\ call'[c].llv = call[c].llv

\* C18: for one request of the client, a rate-limited response gives a
\* sleep and no data; after the sleep the same request is sent again, as
\* long as fewer than 3 attempts have been made; the number of attempts of
\* one request never exceeds 3, and when the third is rate-limited too the
\* request raises: the item fetch ends the cycle with a fatal error, the
\* children request ends the record's download.
C18_RetryCeiling ==
    /\ [](\A c \in Callers :
            (Requesting(c) \/ call[c].pc = "sleep")
            => call[c].attempt + 1 <= RETRIES)
    /\ [][\A c \in Callers :
            (Requesting(c) /\ call'[c].pc = "sleep")
            => /\ call'[c].req = call[c].pc
               /\ call'[c].attempt = call[c].attempt
               /\ SameRequest(c)]_vars
    /\ [][\A c \in Callers :
            (call[c].pc = "sleep" /\ call'[c].pc # "sleep")
            => IF call[c].attempt + 1 < RETRIES
               THEN /\ call'[c].pc = call[c].req
                    /\ call'[c].attempt = call[c].attempt + 1
                    /\ SameRequest(c)
               ELSE IF call[c].req = "fetchItems"
               THEN call'[c].pc = "done" /\ call'[c].fetchFailed
               ELSE /\ call'[c].pc = "loop"
                    /\ call'[c].dlFails = call[c].dlFails + 1]_vars

C18_Witness ==
    \E c \in Callers :
        /\ call[c].pc = "sleep" /\ call[c].attempt + 1 = RETRIES
        /\ call[c].req = "children"

\* C19: a non-OK response without a rate-limit signal makes the request
\* raise at once with the API error message: the caller does not sleep and
\* does not send the request again, and the client's last observed library
\* version is what it was before the response.  The item fetch then ends the
\* cycle with a fatal error, the children request ends the record's download.
C19_ErrorRaisesAtOnce ==
    [][\A c \in Callers :
        (Requesting(c) /\ call'[c].thrown = "api")
        => /\ call'[c].pc \notin {"sleep", call[c].pc}
           /\ call'[c].llv = call[c].llv
           /\ IF call[c].pc = "fetchItems"
              THEN call'[c].pc = "done" /\ call'[c].fetchFailed
              ELSE /\ call'[c].pc = "loop"
                   /\ call'[c].i = call[c].i + 1
                   /\ call'[c].dlFails = call[c].dlFails + 1]_vars

C19_Witness ==
    \E c \in Callers :
        /\ call[c].thrown = "api" /\ call[c].pc = "loop"
        /\ call[c].llv < remoteVersion

\* C20: a rate-limited response to an attachment download is followed by a
\* sleep and a retry of the same download, as for the item-page and children
\* requests: the caller goes to sleep with the download as the request to
\* send again, and the record's download has not failed.
C20_DownloadRetried ==
    [][\A c \in Callers :
        (call[c].pc = "download" /\ call'[c].thrown = "download429")
        => /\ call'[c].pc = "sleep"
           /\ call'[c].req = "download"
           /\ call'[c].i = call[c].i
           /\ call'[c].dlFails = call[c].dlFails]_vars

Slept == pure.fn = "waitMs" /\ pure.done /\ pure.slept

AllDigits(s) == s # <<>> /\ \A i \in 1..Len(s) : IsDigit(s[i])

NoNumber(s) == s # <<>> /\ ~IsDigit(Head(TrimStart(s) \o <<"x">>))

\* C21: on a rate-limited response the client sleeps for the number of
\* seconds the backoff hint gives, and for 5 seconds when the hint is absent
\* or is not a number (a date, for example).
C21_SleepDuration ==
    Slept =>
        LET h == BackoffHint(pure.arg) IN
        /\ h = <<>> => pure.res = Number(5000)
        /\ AllDigits(h) => pure.res = Number(NumberOf(h) * 1000)
        /\ NoNumber(h) => pure.res = Number(5000)

\* The pages received so far are the first records of the server's list.
FetchConsistent(c) ==
    /\ call[c].start <= TotalResults(call[c].since)
    /\ call[c].items =
           SubSeq(SortedDesc(Matching(call[c].since)), 1, call[c].start)

\* A page of records has arrived for caller c in this step.
PageArrived(c) ==
    /\ call[c].pc = "fetchItems" /\ call'[c] # call[c]
    /\ \/ call'[c].pc \in {"fetchItems", "loop"}
       \/ call'[c].pc = "done" /\ call'[c].thrown = "nodb"

InRecordLoop(c) ==
    \/ call[c].pc \in {"loop", "children", "download"}
    \/ call[c].pc = "sleep" /\ call[c].req = "children"

\* The one request a cycle is waiting for, if any.
Outstanding(c) ==
    IF call[c].pc \in {"fetchItems", "children", "download"}
    THEN {<<call[c].pc, call[c].i>>}
    ELSE IF call[c].pc = "sleep" THEN {<<call[c].req, call[c].i>>}
    ELSE {}

\* C23: within a cycle the records are upserted one by one in the order of
\* the fetched list: the upsert of a step is that of the record at the loop
\* index, in the loop position, and touches no row of another key; the index
\* moves on by one, only when the record's upsert and attachment handling
\* are over; an attachment request is always for the record at the index;
\* the extraction pass starts only beyond the last record; and a cycle
\* waits for at most one request.
C23_RecordOrder ==
    /\ [][\A c \in Callers :
            (call'[c].ups = call[c].ups + 1)
            => /\ call[c].pc = "loop" /\ call[c].i <= Len(call[c].recs)
               /\ call[c].ups <= call[c].i - 1
               /\ \E p \in papers' : p.zkey = Current(c).key
               /\ \A p \in papers' : p.zkey # Current(c).key => p \in papers
               /\ call'[c].pc \in {"children", "loop"}]_vars
    /\ [][\A c \in Callers :
            (InRecordLoop(c) /\ call'[c].pc \notin {"done", "idle"}
             /\ call'[c].i # call[c].i)
            => /\ call'[c].i = call[c].i + 1 /\ call'[c].pc = "loop"
               /\ call[c].i <= Len(call[c].recs)
               /\ call'[c].recs = call[c].recs]_vars
    /\ [][\A c \in Callers :
            (call[c].pc \notin {"exloop", "extract", "finish"}
             /\ call'[c].pc \in {"exloop", "extract", "finish"})
            => call[c].pc = "loop" /\ call[c].i = Len(call[c].recs) + 1]_vars
    /\ [](\A c \in Callers :
            /\ call[c].pc \in {"children", "download"}
               => call[c].i <= Len(call[c].recs)
            /\ Cardinality(Outstanding(c)) <= 1)

C23_Witness ==
    \E c \in Callers :
        /\ call[c].pc = "download" /\ call[c].i = 2 /\ call[c].ups = 2
        /\ Len(call[c].recs) >= 2

\* The row of the record caller c is handling has a filename whose file is
\* in the attachment directory.
HasPdfOnDisk(c) ==
    \E p \in RowsById(call[c].paperId) : p.pdf # NoPdf /\ p.pdf \in files

\* C24: when the children of a record arrive and its paper already has a
\* filename whose file is on disk, nothing is downloaded: no file request is
\* sent, the files and the rows stay as they are and pdfsDownloaded is not
\* incremented.  pdfsDownloaded grows by one in exactly the steps in which
\* the record's file is written and its name recorded on the record's paper,
\* and the loop then leaves the record.
C24_DownloadCount ==
    /\ [][\A c \in Callers :
            (call[c].pc = "children" /\ call'[c].pc \in {"loop", "download"}
             /\ HasPdfOnDisk(c))
            => /\ call'[c].pc = "loop"
               /\ files' = files /\ papers' = papers
               /\ call'[c].res.pdfsDownloaded
                      = call[c].res.pdfsDownloaded]_vars
    /\ [][\A c \in Callers :
            (Running(c) /\ call'[c].pc # "idle")
            => /\ call'[c].res.pdfsDownloaded
                      \in {call[c].res.pdfsDownloaded,
                           call[c].res.pdfsDownloaded + 1}
               /\ (call'[c].res.pdfsDownloaded
                      = call[c].res.pdfsDownloaded + 1)
                  <=> /\ call[c].pc = "download" /\ call'[c].pc = "loop"
                      /\ call'[c].i = call[c].i + 1
                      /\ call[c].fname \in files'
                      /\ \E p \in papers' :
                            /\ p.zkey = Current(c).key
                            /\ p.pdf = call[c].fname]_vars

\* C25: the persisted cursor skips no remote change: every remote article
\* record whose version is at most the persisted cursor has been returned,
\* at that version, by a record fetch.
C25_NoChangeSkipped ==
    \A k \in Keys :
        (/\ ItemType(k) \notin {"attachment", "note", "annotation"}
         /\ remote[k] > 0 /\ remote[k] <= syncMeta.libver)
        => hist.seen[k] = remote[k]

\* C26: every write of a sync cycle (paper upserts, attachment files,
\* recorded filenames, extracted text, the cursor) goes to the project
\* whose database was open when the cycle read its cursor.
C26_WritesStayHome ==
    \A w \in proj.wrote : w[2] = proj.home

\* C30: getActiveProject() returns a project if and only if a database
\* connection is open, and the open database is that project's.
C30_ActiveIffOpen ==
    /\ (proj.active # 0) <=> (proj.db # 0)
    /\ proj.db # 0 => proj.db = proj.active /\ proj.dir = proj.active

\* C27: once disconnectZotero has run, no cursor is persisted as long as no
\* account is connected again: with no API key (encrypted or legacy) and no
\* account identifier stored, library_version and last_sync are absent.
C27_NoCursorAfterDisconnect ==
    (syncMeta.enc = "none" /\ ~syncMeta.legacy /\ ~syncMeta.user)
    => (syncMeta.libver = NoRow /\ syncMeta.lastSync = 0)

\* C28: the persisted cursor belongs to the connected account: whenever an
\* account identifier and a cursor are stored, the cursor was written by a
\* cycle that fetched from that account; and a cycle that starts when the
\* stored cursor is not of the stored account (after a connect with another
\* account identifier) reads sinceVersion = 0.
C28_CursorOfAccount ==
    /\ [](syncMeta.user /\ syncMeta.libver # NoRow
            => syncMeta.cursorOf = syncMeta.account)
    /\ [][\A c \in Callers :
            (call[c].pc = "idle" /\ call'[c].pc = "fetchItems"
             /\ syncMeta.cursorOf # syncMeta.account)
            => call'[c].since = 0]_vars

\* C29: repeated cycles converge: a remote article record that has no
\* LocalPaper (its upsert raised in an earlier cycle) is returned by the
\* record fetch of every cycle that starts afterwards, without a new remote
\* change: it matches the cycle's sinceVersion.
C29_FailedRecordRefetched ==
    [][\A c \in Callers :
        (call[c].pc = "idle" /\ call'[c].pc = "fetchItems")
        => \A k \in Keys :
              (/\ ItemType(k) \notin {"attachment", "note", "annotation"}
               /\ remote[k] > 0 /\ RowsByKey(k) = {})
              => k \in Matching(call'[c].since)]_vars
====
